---- MODULE Spec2Model ----
(***************************************************************************)
(* Model of core/dbt/source_config.py: ConfigUpdater (the per-field merge  *)
(* strategies, the FQN walk over a project's config tree, the merge across *)
(* scopes) and SourceConfig (defaults, the in-model accumulator and the    *)
(* `config` property).                                                     *)
(*                                                                         *)
(* Python values are tagged records [t |-> type, v |-> payload]; a dict's  *)
(* payload is a function from string keys to values, a list's or tuple's a *)
(* sequence of values.  The top-level config dicts (mutable_config,        *)
(* in_model_config, the result of `config`) are untagged functions from    *)
(* keys to values.  A dict whose iteration order matters (the argument of  *)
(* update_into, iterated with .items()) is a sequence of [key, value].     *)
(***************************************************************************)
EXTENDS Integers, Sequences, FiniteSets, TLC

VARIABLES
    adapter_type,      \* active_project.credentials.type
    resource_type,     \* self.model.resource_type
    fqn,               \* self.model.fqn
    own_name,          \* self.own_project.project_name
    active_name,       \* self.active_project.project_name
    own_project,       \* self.own_project: [models, seeds, snapshots]
    active_project,    \* self.active_project: [models, seeds, snapshots]
    in_model_config,   \* self.in_model_config
    calls,             \* number of update_in_model_config calls made so far
    declared,          \* history: the arguments of the calls that returned
    last_call          \* history: the last operation, its inputs and outcome

vars == <<adapter_type, resource_type, fqn, own_name, active_name, own_project,
          active_project, in_model_config, calls, declared, last_call>>

\* How many update_in_model_config calls a behaviour makes.
MaxDecls == 2

----------------------------------------------------------------------------
\* Python values

None == [t |-> "none", v |-> "None"]
Str(s) == [t |-> "str", v |-> s]
Num(n) == [t |-> "int", v |-> n]
Bool(b) == [t |-> "bool", v |-> b]
List(s) == [t |-> "list", v |-> s]
Tuple(s) == [t |-> "tuple", v |-> s]
Dict(f) == [t |-> "dict", v |-> f]

\* {} : the dict with no key
EmptyDict == [k \in {} |-> None]

\* d.get(k, default)
Get(d, k, default) == IF k \in DOMAIN d THEN d[k] ELSE default

\* d[k] = x on a copy of d
Put(d, k, x) == [j \in DOMAIN d \cup {k} |-> IF j = k THEN x ELSE d[j]]

\* dict.update(other) for two dicts: other's entries win
Update(d, other) ==
    [j \in DOMAIN d \cup DOMAIN other |-> IF j \in DOMAIN other THEN other[j] ELSE d[j]]

\* `x in lst` for a list payload
Contains(lst, x) == \E i \in 1..Len(lst) : lst[i] = x

\* [f for f in fields if f not in current]
RECURSIVE NotIn(_, _)
NotIn(fields, current) ==
    IF fields = <<>> THEN <<>>
    ELSE IF Contains(current, Head(fields)) THEN NotIn(Tail(fields), current)
         ELSE <<Head(fields)>> \o NotIn(Tail(fields), current)

_listify(value) ==
    IF value.t = "tuple" THEN List(value.v)
    ELSE IF value.t # "list" THEN List(<<value>>)
    ELSE value

----------------------------------------------------------------------------
\* dict.update(value) for an arbitrary value, as `current_dict.update(value)`
\* runs it.  The result is [ok, d]: ok is FALSE when Python raises TypeError
\* or ValueError, and d is the dict as the call left it (dict.update inserts
\* the pairs it read before the element it fails on).
\*   a dict             : its entries are copied
\*   None, a number     : TypeError (not iterable)
\*   a str              : iterated by characters; "" has none and succeeds,
\*                        a character has length 1 where 2 is required
\*   a list or tuple    : each element must be a sequence of length 2, read
\*                        as a (key, value) pair; the keys used here are str
\* A str element of length 2 ("ab" read as the pair a, b) is outside the
\* values used here.
IsPair(e) ==
    /\ e.t \in {"list", "tuple"}
    /\ Len(e.v) = 2
    /\ e.v[1].t = "str"

RECURSIVE UpdatePairs(_, _)
UpdatePairs(d, elems) ==
    IF elems = <<>> THEN [ok |-> TRUE, d |-> d]
    ELSE IF IsPair(Head(elems))
         THEN UpdatePairs(Put(d, Head(elems).v[1].v, Head(elems).v[2]), Tail(elems))
         ELSE [ok |-> FALSE, d |-> d]

DictUpdate(d, value) ==
    CASE value.t = "dict" -> [ok |-> TRUE, d |-> Update(d, value.v)]
      [] value.t \in {"list", "tuple"} -> UpdatePairs(d, value.v)
      [] value.t = "str" -> [ok |-> value.v = "", d |-> d]
      [] OTHER -> [ok |-> FALSE, d |-> d]

----------------------------------------------------------------------------
\* ConfigUpdater: the field sets

AppendListFields == {"pre-hook", "post-hook", "tags"}

ExtendDictFields == {"vars", "column_types", "quoting", "persist_docs"}

DefaultClobberFields ==
    {"alias", "schema", "enabled", "materialized", "unique_key", "database",
     "severity", "sql_header", "incremental_strategy",
     "target_database", "target_schema", "strategy", "updated_at",
     "check_cols", "quote_columns"}

\* get_adapter_class_by_name(adapter_type).AdapterSpecificConfigs
AdapterSpecificConfigs(adapter) ==
    IF adapter = "bigquery" THEN {"cluster_by", "partition_by"} ELSE {}

ClobberFields(adapter) == DefaultClobberFields \cup AdapterSpecificConfigs(adapter)

ConfigKeys(adapter) ==
    AppendListFields \cup ExtendDictFields \cup ClobberFields(adapter)

----------------------------------------------------------------------------
\* ConfigUpdater.update_config_keys_into(mutable_config, new_configs).
\* The result is [ok, config, relevant, err]: config is mutable_config after
\* the call, relevant the returned dict.  When an ExtendDictFields value makes
\* dict.update raise, ok is FALSE and err holds the keys the compiler error
\* can name: the loop runs over a Python set, whose order is not fixed, and
\* stops at the first key that raises.

relevant_configs(adapter, new_configs) ==
    [key \in DOMAIN new_configs \cap ConfigKeys(adapter) |-> new_configs[key]]

AppendInto(mutable_config, relevant) ==
    [key \in DOMAIN mutable_config |->
        IF key \in AppendListFields
        THEN List(mutable_config[key].v \o
                  NotIn(_listify(Get(relevant, key, List(<<>>))).v,
                        mutable_config[key].v))
        ELSE mutable_config[key]]

ExtendInto(mutable_config, relevant) ==
    [key \in DOMAIN mutable_config |->
        IF key \in ExtendDictFields
        THEN Dict(DictUpdate(mutable_config[key].v,
                             Get(relevant, key, Dict(EmptyDict))).d)
        ELSE mutable_config[key]]

ExtendRaises(mutable_config, relevant) ==
    {key \in ExtendDictFields :
        ~DictUpdate(mutable_config[key].v, Get(relevant, key, Dict(EmptyDict))).ok}

ClobberInto(adapter, mutable_config, relevant) ==
    [key \in DOMAIN mutable_config \cup (DOMAIN relevant \cap ClobberFields(adapter)) |->
        IF key \in DOMAIN relevant \cap ClobberFields(adapter)
        THEN relevant[key]
        ELSE mutable_config[key]]

update_config_keys_into(adapter, mutable_config, new_configs) ==
    LET relevant == relevant_configs(adapter, new_configs)
        appended == AppendInto(mutable_config, relevant)
        raises   == ExtendRaises(appended, relevant)
    IN  IF raises # {}
        THEN [ok |-> FALSE, config |-> appended, relevant |-> relevant, err |-> raises]
        ELSE [ok |-> TRUE,
              config |-> ClobberInto(adapter, ExtendInto(appended, relevant), relevant),
              relevant |-> relevant,
              err |-> {}]

----------------------------------------------------------------------------
\* ConfigUpdater.get_project_config(model, project)

\* lines 135-139: every AppendListFields key an empty list, every
\* ExtendDictFields key an empty dict
scaffold ==
    [k \in AppendListFields \cup ExtendDictFields |->
        IF k \in AppendListFields THEN List(<<>>) ELSE Dict(EmptyDict)]

\* lines 141-146: project.seeds, project.snapshots or project.models
model_configs_of(rtype, project) ==
    IF rtype = "seed" THEN project.seeds
    ELSE IF rtype = "snapshot" THEN project.snapshots
    ELSE project.models

\* lines 167-171
clobber_configs(relevant) ==
    [k \in DOMAIN relevant \ (AppendListFields \cup ExtendDictFields) |-> relevant[k]]

\* walk_levels with `continue` in place of `break`: an absent level is
\* skipped and the next one looked up in the same node
RECURSIVE walk_levels_skip(_, _, _, _)
walk_levels_skip(adapter, config, model_configs, levels) ==
    IF levels = <<>> THEN [ok |-> TRUE, cfg |-> config, err |-> {}]
    ELSE LET level_config == Get(model_configs, Head(levels), None)
         IN  IF level_config = None
             THEN walk_levels_skip(adapter, config, model_configs, Tail(levels))
             ELSE LET r == update_config_keys_into(adapter, config, level_config.v)
                  IN  IF ~r.ok
                      THEN [ok |-> FALSE, cfg |-> EmptyDict, err |-> r.err]
                      ELSE walk_levels_skip(adapter,
                                            Update(r.config, clobber_configs(r.relevant)),
                                            model_configs[Head(levels)].v,
                                            Tail(levels))

\* The loop `for level in fqn` (lines 155-174) from the levels left to visit.
\* The result is [ok, cfg, err].  The keys under which the trees used here
\* hold something are config keys or path segments, and a segment holds a
\* dict.
RECURSIVE walk_levels(_, _, _, _)
walk_levels(adapter, config, model_configs, levels) ==
    IF levels = <<>> THEN [ok |-> TRUE, cfg |-> config, err |-> {}]
    ELSE LET level_config == Get(model_configs, Head(levels), None)
         IN  IF level_config = None
             THEN [ok |-> TRUE, cfg |-> config, err |-> {}]
             ELSE LET r == update_config_keys_into(adapter, config, level_config.v)
                  IN  IF ~r.ok
                      THEN [ok |-> FALSE, cfg |-> EmptyDict, err |-> r.err]
                      ELSE walk_levels(adapter,
                                       Update(r.config, clobber_configs(r.relevant)),
                                       model_configs[Head(levels)].v,
                                       Tail(levels))

get_project_config(adapter, rtype, path, project) ==
    LET model_configs == model_configs_of(rtype, project)
    IN  IF model_configs = None
        THEN [ok |-> TRUE, cfg |-> scaffold, err |-> {}]
        ELSE LET r == update_config_keys_into(adapter, scaffold, model_configs.v)
             IN  IF ~r.ok
                 THEN [ok |-> FALSE, cfg |-> EmptyDict, err |-> r.err]
                 ELSE walk_levels(adapter, r.config, model_configs.v, path)

----------------------------------------------------------------------------
\* update_into appending to a list only the elements it does not hold yet,
\* as update_config_keys_into does
RECURSIVE update_into_dedup(_, _)
update_into_dedup(mutable_config, new_config) ==
    IF new_config = <<>> THEN [ok |-> TRUE, config |-> mutable_config, err |-> {}]
    ELSE LET key   == Head(new_config).key
             value == Head(new_config).value
         IN  IF key \in AppendListFields
             THEN LET current_list == _listify(Get(mutable_config, key, List(<<>>)))
                  IN  update_into_dedup(
                          Put(mutable_config, key,
                              List(current_list.v \o NotIn(_listify(value).v, current_list.v))),
                          Tail(new_config))
             ELSE IF key \in ExtendDictFields
             THEN LET current_dict == Get(mutable_config, key, Dict(EmptyDict))
                      u == DictUpdate(current_dict.v, value)
                  IN  IF u.ok
                      THEN update_into_dedup(Put(mutable_config, key, Dict(u.d)),
                                             Tail(new_config))
                      ELSE [ok |-> FALSE,
                            config |-> IF key \in DOMAIN mutable_config
                                       THEN Put(mutable_config, key, Dict(u.d))
                                       ELSE mutable_config,
                            err |-> {key}]
             ELSE update_into_dedup(Put(mutable_config, key, value), Tail(new_config))

\* ConfigUpdater.update_into(mutable_config, new_config): new_config is the
\* sequence of its items, in iteration order.  The result is [ok, config, err]
\* with config the state of mutable_config when the call returned or raised:
\* the keys before the one that raises have been stored, and the dict of the
\* raising key, when mutable_config already held one, is the object
\* dict.update was working on.
RECURSIVE update_into(_, _)
update_into(mutable_config, new_config) ==
    IF new_config = <<>> THEN [ok |-> TRUE, config |-> mutable_config, err |-> {}]
    ELSE LET key   == Head(new_config).key
             value == Head(new_config).value
         IN  IF key \in AppendListFields
             THEN LET current_list == _listify(Get(mutable_config, key, List(<<>>)))
                  IN  update_into(
                          Put(mutable_config, key, List(current_list.v \o _listify(value).v)),
                          Tail(new_config))
             ELSE IF key \in ExtendDictFields
             THEN LET current_dict == Get(mutable_config, key, Dict(EmptyDict))
                      u == DictUpdate(current_dict.v, value)
                  IN  IF u.ok
                      THEN update_into(Put(mutable_config, key, Dict(u.d)), Tail(new_config))
                      ELSE [ok |-> FALSE,
                            config |-> IF key \in DOMAIN mutable_config
                                       THEN Put(mutable_config, key, Dict(u.d))
                                       ELSE mutable_config,
                            err |-> {key}]
             ELSE update_into(Put(mutable_config, key, value), Tail(new_config))

----------------------------------------------------------------------------
\* ConfigUpdater.merge(*configs)

\* dbt.utils.deep_merge(a, b): the two mappings merged key-wise; where both
\* hold a mapping at a key the two are merged recursively, otherwise the
\* right-hand value wins.
RECURSIVE deep_merge(_, _)
deep_merge(a, b) ==
    [k \in DOMAIN a \cup DOMAIN b |->
        IF k \notin DOMAIN b THEN a[k]
        ELSE IF k \notin DOMAIN a THEN b[k]
        ELSE IF a[k].t = "dict" /\ b[k].t = "dict"
             THEN Dict(deep_merge(a[k].v, b[k].v))
             ELSE b[k]]

\* merge_one with the Clobber keys left in the dict that is deep-merged
merge_one_deep(adapter, merged_config, config) ==
    Update(merged_config, deep_merge(merged_config, config))

\* merge_one with a plain dict.update in place of deep_merge
merge_one_shallow(adapter, merged_config, config) ==
    Update(merged_config, config)

\* One round of the loop (lines 189-201): merged_config after `config`.
merge_one(adapter, merged_config, config) ==
    LET clobber == [key \in DOMAIN config \cap ClobberFields(adapter) |-> config[key]]
        rest    == [key \in DOMAIN config \ ClobberFields(adapter) |-> config[key]]
        intermediary_merged == Update(deep_merge(merged_config, rest), clobber)
    IN  Update(merged_config, intermediary_merged)

RECURSIVE merge_from(_, _, _)
merge_from(adapter, merged_config, configs) ==
    IF configs = <<>> THEN merged_config
    ELSE merge_from(adapter, merge_one(adapter, merged_config, Head(configs)), Tail(configs))

merge(adapter, configs) == merge_from(adapter, EmptyDict, configs)

----------------------------------------------------------------------------
\* SourceConfig

get_default(rtype) ==
    LET materialized == IF rtype = "seed" THEN "seed"
                        ELSE IF rtype = "snapshot" THEN "snapshot"
                        ELSE "view"
        defaults == [enabled |-> Bool(TRUE), materialized |-> Str(materialized)]
    IN  IF rtype = "test" THEN Put(defaults, "severity", Str("ERROR")) ELSE defaults

\* credentials.translate_aliases(config): the adapter's aliases renamed to
\* the field names they stand for, the order of the items kept.
Aliases(adapter) ==
    IF adapter = "bigquery"
    THEN [project |-> "database", dataset |-> "schema"]
    ELSE [dbname |-> "database", pass |-> "password"]

_translate_adapter_aliases(adapter, config) ==
    [i \in 1..Len(config) |->
        [key   |-> Get(Aliases(adapter), config[i].key, config[i].key),
         value |-> config[i].value]]

load_config_from_own_project ==
    get_project_config(adapter_type, resource_type, fqn, own_project)

load_config_from_active_project ==
    get_project_config(adapter_type, resource_type, fqn, active_project)

\* `config` without the test on the project names: the own project's config
\* is loaded and merged for every resource
config_own_always ==
    LET defaults      == get_default(resource_type)
        active_config == load_config_from_active_project
        own_config    == load_config_from_own_project
    IN  IF ~active_config.ok
        THEN [ok |-> FALSE, cfg |-> EmptyDict, err |-> active_config.err, args |-> <<>>]
        ELSE IF ~own_config.ok
        THEN [ok |-> FALSE, cfg |-> EmptyDict, err |-> own_config.err, args |-> <<>>]
        ELSE LET args == <<defaults, own_config.cfg, in_model_config, active_config.cfg>>
             IN  [ok |-> TRUE, cfg |-> merge(adapter_type, args), err |-> {}, args |-> args]

\* The `config` property.  The result is [ok, cfg, err, args]: args are the
\* dicts handed to merge.  The active project's config is loaded first, the
\* own project's only for a dependency's model.
config ==
    LET defaults      == get_default(resource_type)
        active_config == load_config_from_active_project
    IN  IF ~active_config.ok
        THEN [ok |-> FALSE, cfg |-> EmptyDict, err |-> active_config.err, args |-> <<>>]
        ELSE IF active_name = own_name
        THEN LET args == <<defaults, active_config.cfg, in_model_config>>
             IN  [ok |-> TRUE, cfg |-> merge(adapter_type, args), err |-> {}, args |-> args]
        ELSE LET own_config == load_config_from_own_project
             IN  IF ~own_config.ok
                 THEN [ok |-> FALSE, cfg |-> EmptyDict, err |-> own_config.err, args |-> <<>>]
                 ELSE LET args == <<defaults, own_config.cfg, in_model_config,
                                    active_config.cfg>>
                      IN  [ok |-> TRUE, cfg |-> merge(adapter_type, args), err |-> {},
                           args |-> args]

\* update_in_model_config(config): [ok, config, err] as update_into gives it
update_in_model_config(new_config) ==
    update_into(in_model_config, _translate_adapter_aliases(adapter_type, new_config))

----------------------------------------------------------------------------
\* The inputs: adapters, resource types, FQNs, project config trees and the
\* in-model declarations.

AdapterTypes == {"postgres", "bigquery"}

ResourceTypes == {"model", "seed", "snapshot", "test"}

Fqns == {<<"pkg", "sub", "m1">>, <<"pkg", "m1">>, <<"other", "sub">>}

\* Settings at the top level and at pkg, pkg.sub and pkg.sub.m1; `sub` is
\* also a child of the top level.  `foo` is no config key, `cluster_by` is
\* one for bigquery only.
TreeA ==
    Dict([materialized |-> Str("table"),
          tags         |-> List(<<Str("a"), Str("b")>>),
          vars         |-> Dict([x |-> Num(1)]),
          foo          |-> Num(1),
          cluster_by   |-> Str("c"),
          pkg |-> Dict([tags |-> List(<<Str("b"), Str("c")>>),
                        vars |-> Dict([y |-> Num(2)]),
                        sub  |-> Dict([schema |-> Str("s"),
                                       m1 |-> Dict([materialized |-> Str("incremental"),
                                                    tags |-> Str("d")])])]),
          sub |-> Dict([tags |-> List(<<Str("z")>>),
                        materialized |-> Str("ephemeral")])])

\* A list that repeats an element, and a number where a dict belongs.
TreeB ==
    Dict([tags |-> List(<<Str("a"), Str("a")>>),
          check_cols |-> List(<<Str("c1")>>),
          pkg |-> Dict([vars |-> Num(5),
                        materialized |-> Str("table")])])

\* Values that are no dict under ExtendDictFields keys, a nested dict under
\* vars and a dict under a clobber key.
TreeC ==
    Dict([vars |-> Dict([x |-> Dict([b |-> Num(2)])]),
          pkg  |-> Dict([persist_docs |-> Str(""),
                         quoting      |-> List(<<>>),
                         partition_by |-> Dict([field |-> Str("d")]),
                         check_cols   |-> Str("all"),
                         materialized |-> Str("table"),
                         tags         |-> List(<<Str("c")>>)])])

Projects ==
    {[models |-> TreeA, seeds |-> TreeC, snapshots |-> None],
     [models |-> TreeB, seeds |-> TreeA, snapshots |-> TreeC],
     [models |-> TreeC, seeds |-> None,  snapshots |-> TreeB]}

Item(k, x) == [key |-> k, value |-> x]

\* The arguments of update_in_model_config.  No declaration holds an alias
\* together with the field it stands for.
Declarations ==
    {<<Item("tags", List(<<Str("a"), Str("b")>>)),
       Item("vars", Dict([x |-> Num(1)])),
       Item("materialized", Str("ephemeral"))>>,
     <<Item("tags", Str("a")),
       Item("vars", Dict([y |-> Num(2)])),
       Item("check_cols", List(<<Str("c2")>>)),
       Item("materialized", Str("table"))>>,
     <<Item("materialized", Str("incremental")),
       Item("vars", List(<<List(<<Str("k"), Str("v")>>), Num(5)>>)),
       Item("tags", Str("e"))>>,
     <<Item("partition_by", Dict([granularity |-> Str("day")])),
       Item("vars", Dict([x |-> Dict([a |-> Num(1)])])),
       Item("project", Str("p")),
       Item("column_types", List(<<List(<<Str("k"), Str("w")>>)>>)),
       Item("persist_docs", List(<<>>)),
       Item("quoting", Str("")),
       Item("foo", Str("1")),
       Item("tags", Tuple(<<Str("c"), Str("a")>>))>>}

----------------------------------------------------------------------------
\* The state machine: one SourceConfig, its update_in_model_config calls and
\* the reads of its `config` property.

NoCall ==
    [op |-> "init", arg |-> <<>>, before |-> EmptyDict, ok |-> TRUE,
     err |-> {}, cfg |-> EmptyDict, args |-> <<>>]

\* SourceConfig.__init__
Init ==
    /\ adapter_type \in AdapterTypes
    /\ resource_type \in ResourceTypes
    /\ fqn \in Fqns
    /\ active_name = "root"
    /\ own_name \in {"root", "dep"}
    /\ own_project \in Projects
    /\ active_project \in Projects
    /\ in_model_config = EmptyDict
    /\ calls = 0
    /\ declared = <<>>
    /\ last_call = NoCall

\* update_in_model_config(new_config), returning or raising
UpdateInModelConfig(new_config) ==
    /\ calls < MaxDecls
    /\ LET r == update_in_model_config(new_config)
       IN  /\ in_model_config' = r.config
           /\ declared' = IF r.ok THEN Append(declared, new_config) ELSE declared
           /\ last_call' = [op |-> "update_in_model_config", arg |-> new_config,
                            before |-> in_model_config, ok |-> r.ok, err |-> r.err,
                            cfg |-> EmptyDict, args |-> <<>>]
    /\ calls' = calls + 1
    /\ UNCHANGED <<adapter_type, resource_type, fqn, own_name, active_name,
                   own_project, active_project>>

\* a read of the `config` property, returning or raising
ReadConfig ==
    /\ LET r == config
       IN  last_call' = [op |-> "config", arg |-> <<>>, before |-> in_model_config,
                         ok |-> r.ok, err |-> r.err, cfg |-> r.cfg, args |-> r.args]
    /\ UNCHANGED <<adapter_type, resource_type, fqn, own_name, active_name,
                   own_project, active_project, in_model_config, calls, declared>>

Next ==
    \/ \E new_config \in Declarations : UpdateInModelConfig(new_config)
    \/ ReadConfig

Spec == Init /\ [][Next]_vars

----------------------------------------------------------------------------
\* Vocabulary of the properties

Max(S) == CHOOSE x \in S : \A y \in S : y <= x

\* the last read of `config` returned a config
Resolved == last_call.op = "config" /\ last_call.ok

\* a value read as a sequence: a list's or tuple's elements, else the value
Coerce(value) == IF value.t \in {"list", "tuple"} THEN value.v ELSE <<value>>

RECURSIVE ConcatAll(_)
ConcatAll(seqs) == IF seqs = <<>> THEN <<>> ELSE Head(seqs) \o ConcatAll(Tail(seqs))

\* the distinct elements of a sequence, each once, in order of first appearance
RECURSIVE FirstOccurrences(_)
FirstOccurrences(seq) ==
    IF seq = <<>> THEN <<>>
    ELSE LET front == FirstOccurrences(SubSeq(seq, 1, Len(seq) - 1))
             x     == seq[Len(seq)]
         IN  IF \E i \in 1..Len(front) : front[i] = x THEN front ELSE Append(front, x)

\* the node reached from root by the first n segments of path
RECURSIVE NodeAt(_, _, _)
NodeAt(root, path, n) ==
    IF n = 0 THEN root ELSE NodeAt(root, path, n - 1)[path[n]].v

\* every one of the first n segments of path is present, each under the last
RECURSIVE PrefixPresent(_, _, _)
PrefixPresent(root, path, n) ==
    \/ n = 0
    \/ /\ PrefixPresent(root, path, n - 1)
       /\ Get(NodeAt(root, path, n - 1), path[n], None) # None

MatchedPrefix(root, path) ==
    Max({n \in 0..Len(path) : PrefixPresent(root, path, n)})

\* the levels a walk of path over a project's tree for a resource type is to
\* visit: the kind level, then the nodes of the longest matched prefix
VisitedLevels(rtype, path, project) ==
    LET tree == model_configs_of(rtype, project)
    IN  IF tree = None THEN <<>>
        ELSE [i \in 1..(MatchedPrefix(tree.v, path) + 1) |-> NodeAt(tree.v, path, i - 1)]

\* the levels applied to an accumulator, one after the other
RECURSIVE ApplyLevels(_, _, _)
ApplyLevels(adapter, acc, levels) ==
    IF levels = <<>> THEN [ok |-> TRUE, cfg |-> acc, err |-> {}]
    ELSE LET r == update_config_keys_into(adapter, acc, Head(levels))
         IN  IF ~r.ok THEN [ok |-> FALSE, cfg |-> EmptyDict, err |-> r.err]
             ELSE ApplyLevels(adapter, r.config, Tail(levels))

\* what each dict handed to merge gives for key k, in the order handed over
Contributions(args, k) ==
    LET having == SelectSeq(args, LAMBDA c : k \in DOMAIN c)
    IN  [n \in 1..Len(having) |-> having[n][k]]

----------------------------------------------------------------------------
\* C1: for every AppendList key the list in the resolved config holds each
\* distinct element the merged scopes give exactly once, in order of first
\* appearance along the scope precedence order.  Stated here is the half of
\* "exactly once" that does not depend on how merge combines the lists of
\* different scopes: no element of the resolved list occurs in it twice.
C1_AppendListEachElementOnce ==
    Resolved =>
        \A k \in AppendListFields :
            /\ k \in DOMAIN last_call.cfg
            /\ last_call.cfg[k].t = "list"
            /\ last_call.cfg[k].v = FirstOccurrences(last_call.cfg[k].v)

----------------------------------------------------------------------------
\* C2: for every Clobber key the merged config holds the value of the last
\* of the dicts handed to merge that has the key, scalar, list or dict alike,
\* and does not have the key when none of them has it.
C2_ClobberLastWins ==
    Resolved =>
        \A k \in ClobberFields(adapter_type) :
            LET given == Contributions(last_call.args, k)
            IN  IF given = <<>>
                THEN k \notin DOMAIN last_call.cfg
                ELSE /\ k \in DOMAIN last_call.cfg
                     /\ last_call.cfg[k] = given[Len(given)]

\* a Clobber key that two scopes give different dicts for has been merged
C2_Witness ==
    /\ Resolved
    /\ \E k \in ClobberFields(adapter_type) :
          LET given == Contributions(last_call.args, k)
          IN  /\ Len(given) >= 2
              /\ given[Len(given)].t = "dict"
              /\ given[Len(given) - 1].t = "dict"
              /\ given[Len(given)] # given[Len(given) - 1]
    /\ \E k \in ClobberFields(adapter_type) :
          LET given == Contributions(last_call.args, k)
          IN  /\ Len(given) >= 3
              /\ given[Len(given)] # given[Len(given) - 1]
              /\ given[Len(given)] # given[Len(given) - 2]

----------------------------------------------------------------------------
\* C3 as claimed: for every ExtendMap key the resolved map is the key-wise
\* union of the maps the scopes give, and on a shared key the later scope's
\* value wins as a whole, also when both values are maps.
ShallowUnion(maps) ==
    [j \in UNION {DOMAIN maps[i].v : i \in 1..Len(maps)} |->
        maps[Max({i \in 1..Len(maps) : j \in DOMAIN maps[i].v})].v[j]]

RECURSIVE Combined(_)
Combined(values) ==
    IF Len(values) = 1 THEN values[1]
    ELSE LET sofar == Combined(SubSeq(values, 1, Len(values) - 1))
             last  == values[Len(values)]
         IN  IF sofar.t = "dict" /\ last.t = "dict"
             THEN Dict([j \in DOMAIN sofar.v \cup DOMAIN last.v |->
                          Combined((IF j \in DOMAIN sofar.v THEN <<sofar.v[j]>> ELSE <<>>)
                                   \o (IF j \in DOMAIN last.v THEN <<last.v[j]>> ELSE <<>>))])
             ELSE last

----------------------------------------------------------------------------
\* C4: for a dependency's resource (own package other than the active one) a
\* Clobber key the active tree sets resolves to the active tree's value, over
\* the own tree's and the in-model one; for a resource of the active package
\* the config is merged from the defaults, the active tree and the in-model
\* accumulator alone, in-model over the tree, whatever the own tree holds.
C4_OwnershipPrecedence ==
    last_call.op = "config" =>
        LET active_config == load_config_from_active_project
        IN  /\ (own_name # active_name /\ last_call.ok) =>
                  \A X \in ClobberFields(adapter_type) \cap DOMAIN active_config.cfg :
                      last_call.cfg[X] = active_config.cfg[X]
            /\ own_name = active_name =>
                  /\ last_call.ok = active_config.ok
                  /\ last_call.ok =>
                        /\ last_call.cfg =
                              merge(adapter_type, <<get_default(resource_type),
                                                    active_config.cfg, in_model_config>>)
                        /\ \A X \in ClobberFields(adapter_type) \cap DOMAIN in_model_config :
                              last_call.cfg[X] = in_model_config[X]

\* a dependency's resource whose own tree, in-model config and active tree
\* give three different values for one Clobber key
C4_Witness ==
    /\ Resolved
    /\ own_name # active_name
    /\ \E X \in ClobberFields(adapter_type) :
          /\ X \in DOMAIN in_model_config
          /\ X \in DOMAIN load_config_from_active_project.cfg
          /\ X \in DOMAIN load_config_from_own_project.cfg
          /\ load_config_from_active_project.cfg[X] # in_model_config[X]
          /\ load_config_from_active_project.cfg[X] # load_config_from_own_project.cfg[X]
          /\ in_model_config[X] # load_config_from_own_project.cfg[X]
          /\ last_call.cfg[X] = load_config_from_active_project.cfg[X]

----------------------------------------------------------------------------
\* C5: an ExtendMap key given a value that is no map, in an in-model
\* declaration or at a visited level of a project tree, makes the operation
\* fail with an error that names that key.
NotMapKeys(level) == {k \in DOMAIN level \cap ExtendDictFields : level[k].t # "dict"}

NotMapKeysOfItems(items) ==
    {items[i].key : i \in {n \in 1..Len(items) :
                             /\ items[n].key \in ExtendDictFields
                             /\ items[n].value.t # "dict"}}

NotMapKeysVisited(project) ==
    LET levels == VisitedLevels(resource_type, fqn, project)
    IN  UNION {NotMapKeys(levels[i]) : i \in 1..Len(levels)}

ConsultedProjects ==
    IF own_name = active_name THEN {active_project} ELSE {active_project, own_project}

C5_NonMapValueIsAnError ==
    /\ last_call.op = "update_in_model_config" =>
          LET bad == NotMapKeysOfItems(_translate_adapter_aliases(adapter_type, last_call.arg))
          IN  bad # {} => (~last_call.ok /\ last_call.err # {} /\ last_call.err \subseteq bad)
    /\ last_call.op = "config" =>
          LET bad == UNION {NotMapKeysVisited(p) : p \in ConsultedProjects}
          IN  bad # {} => (~last_call.ok /\ last_call.err # {} /\ last_call.err \subseteq bad)

----------------------------------------------------------------------------
\* C6: the walk is a strict prefix match.  The config of a scope is the
\* scaffold after the kind-level fields and then the fields of the nodes of
\* the longest prefix of the FQN whose segments are all present, outermost
\* first; the walk stops without error at the first absent segment and looks
\* up no later one, and with no segment matched the result is the kind-level
\* scaffold.  (A tree that is None gives the bare scaffold.)
ScopeAsClaimed(project) ==
    ApplyLevels(adapter_type, scaffold, VisitedLevels(resource_type, fqn, project))

C6_WalkIsStrictPrefixMatch ==
    last_call.op = "config" =>
        \A project \in {active_project, own_project} :
            LET tree == model_configs_of(resource_type, project)
                got  == get_project_config(adapter_type, resource_type, fqn, project)
            IN  /\ got = ScopeAsClaimed(project)
                /\ (tree # None /\ got.ok /\ MatchedPrefix(tree.v, fqn) = 0) =>
                      got.cfg = update_config_keys_into(adapter_type, scaffold, tree.v).config

\* a walk that stops at an absent first segment while the second segment is
\* a child of the top level and holds fields the result does not show
C6_Witness ==
    /\ Resolved
    /\ Len(fqn) = 2
    /\ LET tree == model_configs_of(resource_type, active_project)
       IN  /\ tree # None
           /\ fqn[1] \notin DOMAIN tree.v
           /\ fqn[2] \in DOMAIN tree.v
           /\ \E k \in DOMAIN tree.v[fqn[2]].v \cap ClobberFields(adapter_type) :
                 /\ k \in DOMAIN tree.v
                 /\ tree.v[fqn[2]].v[k] # tree.v[k]
                 /\ load_config_from_active_project.cfg[k] = tree.v[k]

----------------------------------------------------------------------------
\* C7: within one scope, for every AppendList key the list the walk returns
\* holds each distinct element of the visited levels' values exactly once, in
\* first-seen order, also when one level's list repeats an element.
C7_LevelsAppendEachElementOnce ==
    last_call.op = "config" =>
        LET got    == load_config_from_active_project
            levels == VisitedLevels(resource_type, fqn, active_project)
        IN  got.ok =>
                \A k \in AppendListFields :
                    got.cfg[k] =
                        List(FirstOccurrences(ConcatAll(
                            [i \in 1..Len(levels) |->
                                IF k \in DOMAIN levels[i] THEN Coerce(levels[i][k]) ELSE <<>>])))

----------------------------------------------------------------------------
\* C8: every key of the config `config` returns is a recognized key; a key
\* that is none is ignored in a project tree level and in an in-model
\* declaration alike.
C8_OnlyRecognizedKeys ==
    Resolved => DOMAIN last_call.cfg \subseteq ConfigKeys(adapter_type)

----------------------------------------------------------------------------
\* C9: after calls of update_in_model_config that all returned, the in-model
\* accumulator is the fold of the declarations (their aliases translated) in
\* call order: an AppendList key holds the concatenation of the declared
\* values, each coerced to a sequence, duplicates kept; an ExtendMap key holds
\* the shallow union of the entries declared for it, the later declaration
\* winning on a shared key; every other key holds its last declared value.
\* (The entries of a declared value are those of the map; of a value that is
\* no map and was accepted, the pairs it lists.)
DeclaredItems ==
    ConcatAll([i \in 1..Len(declared) |->
                  _translate_adapter_aliases(adapter_type, declared[i])])

ValuesDeclared(items, k) ==
    LET having == SelectSeq(items, LAMBDA item : item.key = k)
    IN  [n \in 1..Len(having) |-> having[n].value]

EntriesOf(value) ==
    IF value.t = "dict" THEN value
    ELSE IF value.t \in {"list", "tuple"}
    THEN Dict([j \in {value.v[i].v[1].v : i \in 1..Len(value.v)} |->
                  value.v[Max({i \in 1..Len(value.v) : value.v[i].v[1].v = j})].v[2]])
    ELSE Dict(EmptyDict)

C9_AccumulatorIsFoldOfDeclarations ==
    calls = Len(declared) =>
        LET items == DeclaredItems
        IN  /\ DOMAIN in_model_config = {items[i].key : i \in 1..Len(items)}
            /\ \A k \in DOMAIN in_model_config :
                  LET values == ValuesDeclared(items, k)
                  IN  IF k \in AppendListFields
                      THEN in_model_config[k] =
                              List(ConcatAll([i \in 1..Len(values) |-> Coerce(values[i])]))
                      ELSE IF k \in ExtendDictFields
                      THEN in_model_config[k] =
                              Dict(ShallowUnion([i \in 1..Len(values) |-> EntriesOf(values[i])]))
                      ELSE in_model_config[k] = values[Len(values)]

\* two declarations returned that share an element of an AppendList key, give
\* different keys of one ExtendMap key and different values of a third key
C9_Witness ==
    /\ calls = 2
    /\ Len(declared) = 2
    /\ \E k \in AppendListFields :
          /\ Len(ValuesDeclared(DeclaredItems, k)) = 2
          /\ in_model_config[k].v # FirstOccurrences(in_model_config[k].v)
    /\ \E k \in ExtendDictFields :
          LET values == ValuesDeclared(DeclaredItems, k)
          IN  /\ Len(values) = 2
              /\ values[1].t = "dict"
              /\ values[2].t = "dict"
              /\ DOMAIN values[1].v \cap DOMAIN values[2].v = {}
              /\ DOMAIN in_model_config[k].v = DOMAIN values[1].v \cup DOMAIN values[2].v
    /\ \E k \in DOMAIN in_model_config \ (AppendListFields \cup ExtendDictFields) :
          LET values == ValuesDeclared(DeclaredItems, k)
          IN  /\ Len(values) = 2
              /\ values[1] # values[2]

----------------------------------------------------------------------------
\* C10: a call of update_in_model_config that fails leaves the in-model
\* accumulator as it was before the call.
C10_FailedDeclarationLeavesAccumulator ==
    (last_call.op = "update_in_model_config" /\ ~last_call.ok) =>
        in_model_config = last_call.before

====
